---- MODULE Spec2Model ----
(***************************************************************************)
(* Payment reconciliation core of the marketplace backend: the Payme       *)
(* gateway client (app/external_services/payme_service.py), the payment    *)
(* ledger (app/crud/payment_crud.py) and the request handlers that drive   *)
(* them (app/routers/payme_router.py, app/routers/tariff_router.py).       *)
(*                                                                         *)
(* Conventions.  An Optional[T] value is a sequence of length at most one: *)
(* None is <<>> and a present value x is <<x>>.  Tariff.price is a float;  *)
(* it is kept in units of 1/PriceUnit so that int(price) truncates.        *)
(* A JSON object is kept with its key order (a Python dict is ordered).    *)
(***************************************************************************)
EXTENDS Integers, Sequences, FiniteSets, TLC

\* ------------------------------------------------------------------ bounds
MaxPayments == 1
MaxTime == 1
MaxAccounts == 2
MaxClock == 2

\* ------------------------------------------------------------ value helpers
None == <<>>
Some(x) == <<x>>
IsSome(o) == Len(o) = 1
Val(o) == o[1]

Times == 0..MaxTime
UserIds == {1, 2}
\* Payment.user_id is a str column; User.id is an int primary key.
UserIdStrs == {ToString(u) : u \in UserIds}
\* Tariff ids a purchase request may name; no tariff has the last one.
RequestTariffIds == {1, 2, 3, 4}
TxnIds == {"txn-0000-0001", "txn-0000-0002"}
ShortTxnIds == {"txn-9"}
ChequeIds == {"chq-1"}

\* Tariff.price is a float: prices are stored in units of 1/PriceUnit.
PriceUnit == 2
IntPrice(price) == price \div PriceUnit

\* ------------------------------------------------------- gateway client
\* The merchant's secret and a secret the provider does not share with us.
SecretKey == "merchant-secret"
OtherKey == "other-secret"

\* A webhook body as the handler receives it from request.json(): `keys` is
\* the order of the top-level keys present, `params` the nested object as
\* ordered <<key, value>> pairs, `signature` the optional body field.
HasKey(data, k) == \E i \in 1..Len(data.keys) : data.keys[i] = k
RECURSIVE DumpPairs(_)
DumpPairs(ps) ==
    IF ps = <<>> THEN <<>>
    ELSE <<ps[1][1], ps[1][2]>> \o DumpPairs(Tail(ps))
DumpValue(data, k) ==
    CASE k = "method" -> <<data.method>>
      [] k = "params" -> <<"{">> \o DumpPairs(data.params) \o <<"}">>
      [] OTHER -> <<"sig">> \o data.signature
RECURSIVE DumpKeys(_, _)
DumpKeys(data, ks) ==
    IF ks = <<>> THEN <<>>
    ELSE <<ks[1]>> \o DumpValue(data, ks[1]) \o DumpKeys(data, Tail(ks))
\* json.dumps(data, separators=(',', ':')): the keys in their stored order.
JsonDumps(data) == <<"{">> \o DumpKeys(data, data.keys) \o <<"}">>
\* hmac.new(key, msg, sha256).hexdigest(), taken as collision free.
HmacSha256(key, msg) == <<key>> \o msg
\* A digest that covers the method of the body only.
_generate_signatureMutantMethodOnly(secret_key, data) ==
    HmacSha256(secret_key, <<data.method>>)
_generate_signature(secret_key, data) == HmacSha256(secret_key, JsonDumps(data))
\* data.copy(); data.pop('signature', None)
PopSignature(data) ==
    [data EXCEPT !.keys = SelectSeq(data.keys, LAMBDA k : k # "signature")]
\* A verification that only looks for the header.
verify_webhook_signatureMutantPresent(data, signature) == signature # None
verify_webhook_signature(data, signature) ==
    IF signature = None THEN FALSE
    ELSE Val(signature) = _generate_signature(SecretKey, PopSignature(data))

\* dict.get on the nested params object.
RECURSIVE ParamGet(_, _)
ParamGet(ps, k) ==
    IF ps = <<>> THEN None
    ELSE IF ps[1][1] = k THEN Some(ps[1][2]) ELSE ParamGet(Tail(ps), k)
\* webhook_data.get('params', {})
Params(data) == IF HasKey(data, "params") THEN data.params ELSE <<>>
\* The four results of parse_webhook_data.
ParseError ==
    [type |-> "error", method |-> None, transaction_id |-> None,
     cheque_id |-> None, amount |-> None, paid_at |-> None]
PaymentSuccess(params) ==
    [type |-> "payment_success", method |-> None,
     transaction_id |-> ParamGet(params, "id"),
     cheque_id |-> ParamGet(params, "cheque_id"),
     amount |-> ParamGet(params, "amount"),
     paid_at |-> ParamGet(params, "paid_at")]
PaymentCancelled(params) ==
    [type |-> "payment_cancelled", method |-> None,
     transaction_id |-> ParamGet(params, "id"),
     cheque_id |-> None, amount |-> None, paid_at |-> None]
Unknown(method) ==
    [type |-> "unknown", method |-> Some(method), transaction_id |-> None,
     cheque_id |-> None, amount |-> None, paid_at |-> None]
\* A parser that reads every named method as a payment report.
parse_webhook_dataMutantAllPay(data) ==
    IF ~HasKey(data, "method") \/ data.method = "" THEN ParseError
    ELSE PaymentSuccess(Params(data))
\* A parser that hands out the receipt id as the transaction id.
parse_webhook_dataMutantSwapsIds(data) ==
    IF ~HasKey(data, "method") \/ data.method = "" THEN ParseError
    ELSE IF data.method = "receipts.pay"
    THEN [PaymentSuccess(Params(data)) EXCEPT
             !.transaction_id = ParamGet(Params(data), "cheque_id")]
    ELSE IF data.method = "receipts.cancel" THEN PaymentCancelled(Params(data))
    ELSE Unknown(data.method)
\* PaymeService.parse_webhook_data.  params.get raises AttributeError when
\* `params` is not a JSON object; `except (PaymeValidationError, Exception)`
\* turns it into the error result.
parse_webhook_data(data) ==
    IF data.keys = <<>> THEN ParseError
    ELSE IF ~HasKey(data, "method") \/ data.method = "" THEN ParseError
    ELSE IF data.method = "receipts.pay"
    THEN IF HasKey(data, "params") /\ data.params_type # "object"
         THEN ParseError ELSE PaymentSuccess(Params(data))
    ELSE IF data.method = "receipts.cancel"
    THEN IF HasKey(data, "params") /\ data.params_type # "object"
         THEN ParseError ELSE PaymentCancelled(Params(data))
    ELSE Unknown(data.method)

\* Timestamps travel in JSON as text.
TimeStr(t) == ToString(t)
ParseTime(s) == CHOOSE t \in Times : TimeStr(t) = s

\* ------------------------------------------------------------------- state
VARIABLES
    now,          \* datetime.utcnow(), in days
    tariffs,      \* table tariff: id -> row
    users,        \* table user: id -> the subscription fields of the row
    payments,     \* table payment, in insertion order; never deleted from
    gatewayLog,   \* the requests sent to the provider, each with its reply
    resp,         \* the reply to the last request handled
    inflight,     \* webhook requests between their SELECT and their COMMIT
    probe,        \* the gateway client called directly: the call, its outcome
    rate_limit_store, \* rate_limit.py: "func:ip" -> (count, timestamp)
    clock,        \* time.time(), in seconds
    admitted,     \* per "func:ip": the window being observed and the calls
                  \* the wrapper has let through in it
    likes,        \* table like: rows (card_id, user_id)
    cards         \* table card: id -> like_count
limiterVars == <<rate_limit_store, clock, admitted>>
likeVars == <<likes, cards>>
vars == <<now, tariffs, users, payments, gatewayLog, resp, inflight, probe,
          limiterVars, likeVars>>

\* A reply: the handler, the HTTP status, the `detail` of an HTTPException,
\* and the `success` and `transaction_id` fields of a response body.  The
\* details that format a value in are cut at the formatted value.
NoResp == [op |-> "none", code |-> 0, detail |-> "", success |-> FALSE,
           transaction_id |-> None]
Reply(op, code, success, txn) ==
    [op |-> op, code |-> code, detail |-> "", success |-> success,
     transaction_id |-> txn]
HTTPException(op, code, detail) ==
    [op |-> op, code |-> code, detail |-> detail, success |-> FALSE,
     transaction_id |-> None]

\* The catalogue after startup: the free plan (ensure_free_tariff_exists)
\* and two paid plans an administrator created, one of them withdrawn
\* from sale (is_active = False).
InitTariffs ==
    (1 :> [price |-> 0, duration_days |-> 1, is_active |-> TRUE]) @@
    (2 :> [price |-> 3, duration_days |-> 2, is_active |-> TRUE]) @@
    (3 :> [price |-> 4, duration_days |-> 2, is_active |-> FALSE])
\* register_user at day t: a new account starts on the free plan.  The
\* first account registered today, the second the day before.
RegisteredAccount(free_id, t) ==
    [tariff_id |-> Some(free_id),
     tariff_expires_at |-> Some(t + InitTariffs[free_id].duration_days)]
FreeTariffId == CHOOSE i \in DOMAIN InitTariffs : InitTariffs[i].price = 0

\* No method of the gateway client has been called directly.
NoProbe == [method |-> "none"]

\* rate_limit_store = {} at import; no call has been seen.
InitLimiter ==
    /\ rate_limit_store = <<>>
    /\ clock = 0
    /\ admitted = <<>>

\* Two cards nobody has liked yet (Card.like_count defaults to 0).
CardIds == {1, 2}
InitLikes ==
    /\ likes = {}
    /\ cards = [c \in CardIds |-> [like_count |-> 0]]

\* The server processes that may each be handling one webhook request.
WorkerIds == {1, 2}
Idle == [pc |-> "idle"]

Init ==
    /\ now = 0
    /\ tariffs = InitTariffs
    /\ users = [u \in UserIds |-> RegisteredAccount(FreeTariffId, 1 - u)]
    /\ payments = <<>>
    /\ gatewayLog = {}
    /\ resp = NoResp
    /\ inflight = [w \in WorkerIds |-> Idle]
    /\ probe = NoProbe
    /\ InitLimiter
    /\ InitLikes

\* session.get(Tariff, id)
GetTariff(tariff_id) ==
    IF tariff_id \in DOMAIN tariffs THEN Some(tariffs[tariff_id]) ELSE None
\* session.get(User, user_id) with the str key of Payment.user_id
GetUser(user_id) == {u \in DOMAIN users : ToString(u) = user_id}

\* ------------------------------------------------------------ the ledger
\* A payment row.  The columns no operation reads back (created_at,
\* updated_at, webhook_received_at, payme_cheque_id, payment_method) are
\* left out of the row.
create_payme_payment(ps, user_id, amount, tariff_id) ==
    Append(ps, [user_id |-> user_id, amount |-> amount,
                tariff_id |-> Some(tariff_id), status |-> "PENDING",
                paid_at |-> None, payme_transaction_id |-> None,
                payme_error_code |-> None,
                payme_error_message |-> None])

\* select(Payment).where(Payment.payme_transaction_id == id): the rows the
\* query matches; `== None` is rendered IS NULL.  .first() takes one of
\* them, in no stated order.
get_payment_by_payme_transaction(ps, payme_transaction_id) ==
    {i \in 1..Len(ps) : ps[i].payme_transaction_id = payme_transaction_id}

update_payment_with_payme_data(ps, payment_id, payme_transaction_id, payme_cheque_id) ==
    IF payment_id \notin 1..Len(ps) THEN ps
    ELSE [ps EXCEPT ![payment_id].payme_transaction_id = Some(payme_transaction_id)]

\* A failure record that leaves the status as it was.
mark_payment_failedMutantKeepsStatus(ps, payment_id, error_code, error_message) ==
    IF payment_id \notin 1..Len(ps) THEN ps
    ELSE [ps EXCEPT ![payment_id].payme_error_code = Some(error_code),
                    ![payment_id].payme_error_message = Some(error_message)]

mark_payment_failed(ps, payment_id, error_code, error_message) ==
    IF payment_id \notin 1..Len(ps) THEN ps
    ELSE [ps EXCEPT ![payment_id].status = "FAILED",
                    ![payment_id].payme_error_code = Some(error_code),
                    ![payment_id].payme_error_message = Some(error_message)]

\* The write of update_payment_from_webhook to the row it found.
update_payment_from_webhook(ps, payment_id, status, paid_at, cheque_id, utcnow) ==
    IF status = "PAID"
    THEN [ps EXCEPT ![payment_id].status = status,
                    ![payment_id].paid_at =
                        IF paid_at # None THEN Some(ParseTime(Val(paid_at)))
                        ELSE Some(utcnow)]
    ELSE IF status = "FAILED"
    THEN [ps EXCEPT ![payment_id].status = status,
                    ![payment_id].payme_error_code = Some("WEBHOOK_FAILED"),
                    ![payment_id].payme_error_message = Some("Payment failed via webhook")]
    ELSE [ps EXCEPT ![payment_id].status = status]

activate_user_tariff(us, user_id, tariff_id) ==
    IF GetUser(user_id) = {} \/ GetTariff(tariff_id) = None THEN us
    ELSE LET u == CHOOSE x \in GetUser(user_id) : TRUE
         IN [us EXCEPT ![u].tariff_id = Some(tariff_id),
                       ![u].tariff_expires_at =
                           Some(now + Val(GetTariff(tariff_id)).duration_days)]

\* ------------------------------------------------- gateway client, outbound
\* What the provider (or the network) answers to one POST {api}/api.
GatewayReplies ==
    [kind : {"result"}, transaction : {Some(t) : t \in TxnIds} \cup {None},
     message : {None}]
    \cup [kind : {"error"}, transaction : {None},
          message : {Some("Insufficient funds")}]
    \cup [kind : {"http_error", "timeout", "connection_error"},
          transaction : {None}, message : {None}]

\* Replies with status 200 that are not the envelope the client expects:
\* {"result": null}, a JSON array, a body that is not JSON.
MalformedReplies ==
    [kind : {"null_result", "not_an_object", "invalid_json"},
     transaction : {None}, message : {None}]

\* _make_request: the decoded reply, or the PaymeAPIError it raises.  A
\* reply of kind "result" is {"result": {...}}, the object empty when the
\* reply names no transaction.
_make_request(reply) ==
    CASE reply.kind = "result" ->
           [raised |-> FALSE, message |-> "", shape |-> "result_object",
            transaction |-> reply.transaction]
      [] reply.kind = "null_result" ->
           [raised |-> FALSE, message |-> "", shape |-> "result_null",
            transaction |-> None]
      [] reply.kind = "not_an_object" ->
           [raised |-> FALSE, message |-> "", shape |-> "not_an_object",
            transaction |-> None]
      [] reply.kind = "error" ->
           [raised |-> TRUE,
            message |-> IF reply.message # None THEN Val(reply.message)
                        ELSE "Unknown Payme error",
            shape |-> "", transaction |-> None]
      [] reply.kind = "http_error" ->
           [raised |-> TRUE, message |-> "HTTP 500", shape |-> "",
            transaction |-> None]
      [] reply.kind = "timeout" ->
           [raised |-> TRUE, message |-> "Request timeout", shape |-> "",
            transaction |-> None]
      [] reply.kind = "connection_error" ->
           [raised |-> TRUE, message |-> "Connection error", shape |-> "",
            transaction |-> None]
      [] OTHER ->
           [raised |-> TRUE, message |-> "Request failed", shape |-> "",
            transaction |-> None]

\* What a method of the client hands to its caller: a result dict, or
\* (raised) an exception that is neither PaymeValidationError nor
\* PaymeAPIError and so passes the method's except clause.
Failure(called, error) ==
    [success |-> FALSE, transaction_id |-> None, called |-> called,
     error |-> error, raised |-> FALSE]
Success(transaction_id) ==
    [success |-> TRUE, transaction_id |-> transaction_id, called |-> TRUE,
     error |-> "", raised |-> FALSE]
Raised(exception) ==
    [success |-> FALSE, transaction_id |-> None, called |-> TRUE,
     error |-> exception, raised |-> TRUE]

\* PaymeService.create_payment: validation, then one CreateTransaction call.
\* result.get('result', {}) is None for {"result": null}, and a list has no
\* .get: the .get that follows raises AttributeError.
PaymeService_create_payment(amount, order_id, reply) ==
    IF amount <= 0 THEN Failure(FALSE, "Amount must be greater than 0")
    ELSE IF order_id = "" THEN Failure(FALSE, "Order ID is required")
    ELSE LET result == _make_request(reply)
         IN IF result.raised THEN Failure(TRUE, result.message)
            ELSE IF result.shape # "result_object" THEN Raised("AttributeError")
            ELSE IF result.transaction # None THEN Success(result.transaction)
            ELSE Failure(TRUE, "No transaction data received")

\* PaymeService.check_transaction: one CheckTransaction call.  The success
\* dict has the keys create_time, perform_time, cancel_time, transaction,
\* state, reason and data, and no key 'status'.
PaymeService_check_transaction(transaction_id, reply) ==
    IF transaction_id = "" THEN Failure(FALSE, "Transaction ID is required")
    ELSE LET result == _make_request(reply)
         IN IF result.raised THEN Failure(TRUE, result.message)
            ELSE IF result.shape = "not_an_object" THEN Raised("AttributeError")
            ELSE IF result.shape = "result_object" /\ result.transaction # None
            THEN Success(result.transaction)
            ELSE Failure(TRUE, "Transaction not found")

\* PaymeService.cancel_transaction: one CancelTransaction call.
PaymeService_cancel_transaction(transaction_id, reason, reply) ==
    IF transaction_id = "" THEN Failure(FALSE, "Transaction ID is required")
    ELSE LET result == _make_request(reply)
         IN IF result.raised THEN Failure(TRUE, result.message)
            ELSE IF result.shape = "not_an_object" THEN Raised("AttributeError")
            ELSE IF result.shape = "result_object" /\ result.transaction # None
            THEN Success(result.transaction)
            ELSE Failure(TRUE, "Cancel failed")

\* ------------------------------------------------------ purchase initiation
\* An upgrade rule that lets a plan of the same price through.
CanPurchaseMutantLess(user, tariff) ==
    ~ /\ user.tariff_id # None /\ user.tariff_expires_at # None
      /\ Val(user.tariff_expires_at) > now
      /\ tariff.price < tariffs[Val(user.tariff_id)].price
\* The upgrade-only rule of payme_router.create_payment: FALSE is a denial.
CanPurchase(user, tariff) ==
    ~ /\ user.tariff_id # None /\ user.tariff_expires_at # None
      /\ Val(user.tariff_expires_at) > now
      /\ tariff.price <= tariffs[Val(user.tariff_id)].price
\* The same rule as tariff_router.purchase_tariff writes it.
TariffRouterCanPurchase(user, tariff) ==
    ~ /\ user.tariff_id # None /\ user.tariff_expires_at # None
      /\ Val(user.tariff_expires_at) > now
      /\ tariff.price <= tariffs[Val(user.tariff_id)].price

\* The part of both purchase handlers after validation: open the payment,
\* call the gateway, attach the ids or mark the payment failed.
OpenAndCreateUpTo(cap, op, user_id, tariff_id, amount) ==
    /\ Len(payments) < cap
    /\ \E reply \in GatewayReplies :
       LET opened == create_payme_payment(payments, user_id, amount, tariff_id)
           payment_id == Len(opened)
           payme_result == PaymeService_create_payment(
                               amount, ToString(payment_id), reply)
       IN /\ gatewayLog' = IF payme_result.called
                           THEN gatewayLog \cup {<<"CreateTransaction", payment_id, reply>>}
                           ELSE gatewayLog
          /\ IF payme_result.raised
             THEN /\ payments' = opened
                  /\ resp' = HTTPException(op, 500,
                                IF op = "purchase_tariff"
                                THEN "Error purchasing tariff"
                                ELSE "Internal server error")
             ELSE IF payme_result.success
             THEN /\ payments' = update_payment_with_payme_data(
                                     opened, payment_id,
                                     Val(payme_result.transaction_id), None)
                  /\ resp' = Reply(op, 200, TRUE, payme_result.transaction_id)
             ELSE /\ payments' = mark_payment_failed(
                                     opened, payment_id, "PAYME_CREATE_FAILED",
                                     payme_result.error)
                  /\ resp' = Reply(op, 200, FALSE, None)
    /\ UNCHANGED <<now, tariffs, users, inflight, probe,
                 limiterVars, likeVars>>
OpenAndCreate(op, user_id, tariff_id, amount) ==
    OpenAndCreateUpTo(MaxPayments, op, user_id, tariff_id, amount)

Refuse(op, code, detail) ==
    /\ resp' = HTTPException(op, code, detail)
    /\ UNCHANGED <<now, tariffs, users, payments, gatewayLog, inflight, probe,
                 limiterVars, likeVars>>

\* A handler that opens the payment before it evaluates the upgrade rule.
CreatePaymentBodyMutantOpensFirst(op, current_user, user_id, tariff_id, amount) ==
    LET tariff == GetTariff(tariff_id) IN
    IF tariff = None THEN Refuse(op, 404, "Tariff not found")
    ELSE IF ~Val(tariff).is_active
    THEN Refuse(op, 400, "This tariff is not available for purchase")
    ELSE IF amount # IntPrice(Val(tariff).price)
    THEN Refuse(op, 400, "Amount does not match tariff price")
    ELSE IF ~CanPurchase(users[current_user], Val(tariff))
    THEN /\ Len(payments) < MaxPayments
         /\ payments' = create_payme_payment(payments, user_id, amount, tariff_id)
         /\ resp' = HTTPException(op, 400, "You cannot downgrade to a cheaper tariff")
         /\ UNCHANGED <<now, tariffs, users, gatewayLog, inflight, probe,
                 limiterVars, likeVars>>
    ELSE OpenAndCreate(op, user_id, tariff_id, amount)

\* payme_router.create_payment, also the tail of payme_router.purchase_tariff.
CreatePaymentBody(op, current_user, user_id, tariff_id, amount) ==
    LET tariff == GetTariff(tariff_id) IN
    IF tariff = None THEN Refuse(op, 404, "Tariff not found")
    ELSE IF ~Val(tariff).is_active
    THEN Refuse(op, 400, "This tariff is not available for purchase")
    ELSE IF amount # IntPrice(Val(tariff).price)
    THEN Refuse(op, 400, "Amount does not match tariff price")
    ELSE IF ~CanPurchase(users[current_user], Val(tariff))
    THEN Refuse(op, 400, "You cannot downgrade to a cheaper tariff")
    ELSE OpenAndCreate(op, user_id, tariff_id, amount)

\* POST /payme/create-payment
create_payment(current_user, user_id, tariff_id, amount) ==
    CreatePaymentBody("create_payment", current_user, user_id, tariff_id, amount)

\* POST /payme/purchase-tariff
payme_purchase_tariff(current_user, user_id, tariff_id) ==
    LET tariff == GetTariff(tariff_id) IN
    IF tariff = None THEN Refuse("payme_purchase_tariff", 404, "Tariff not found")
    ELSE IF ~Val(tariff).is_active
    THEN Refuse("payme_purchase_tariff", 400, "This tariff is not available for purchase")
    ELSE CreatePaymentBody("payme_purchase_tariff", current_user, user_id,
                           tariff_id, IntPrice(Val(tariff).price))

\* POST /tariffs/{tariff_id}/purchase, in a run that opens up to `cap`
\* payments.
PurchaseTariffUpTo(cap, current_user, tariff_id) ==
    LET tariff == GetTariff(tariff_id) IN
    IF tariff = None THEN Refuse("purchase_tariff", 404, "Tariff not found")
    ELSE IF ~Val(tariff).is_active
    THEN Refuse("purchase_tariff", 400, "This tariff is not available for purchase")
    ELSE IF ~TariffRouterCanPurchase(users[current_user], Val(tariff))
    THEN Refuse("purchase_tariff", 400, "You cannot downgrade to a cheaper tariff")
    ELSE OpenAndCreateUpTo(cap, "purchase_tariff", ToString(current_user),
                           tariff_id, IntPrice(Val(tariff).price))
purchase_tariff(current_user, tariff_id) ==
    PurchaseTariffUpTo(MaxPayments, current_user, tariff_id)

\* ------------------------------------------------------------ the webhook
\* Transaction ids a webhook may carry: those the gateway issues and one it
\* never issued to us.
WebhookTxnIds == TxnIds \cup {"txn-0000-0009"}
IdParams == {<<>>} \cup {<< <<"id", t>> >> : t \in WebhookTxnIds}
PaidAtParams == {<<>>, << <<"paid_at", TimeStr(0)>> >>}
ChequeParams == {<<>>} \cup {<< <<"cheque_id", c>> >> : c \in ChequeIds}
WebhookBody(keys, method, params) ==
    [keys |-> keys, method |-> method, params |-> params, signature |-> None,
     params_type |-> "object"]
\* receipts.pay events for the transactions the gateway issued.
PayEvents ==
    {WebhookBody(<<"method", "params">>, "receipts.pay", << <<"id", t>> >> \o p) :
        t \in TxnIds, p \in PaidAtParams}
\* Every request body delivered to POST /payme/webhook.
WebhookBodies ==
    PayEvents
    \cup {WebhookBody(<<"method", "params">>, "receipts.pay", i \o c) :
            i \in IdParams, c \in ChequeParams}
    \cup {WebhookBody(<<"method", "params">>, m, i) :
            m \in {"receipts.cancel", "receipts.get", ""}, i \in IdParams}
    \cup {WebhookBody(<<"params">>, "", i) : i \in IdParams}
\* Events of a method this service does not handle, and one whose method
\* is the empty string.
OtherEvents ==
    {WebhookBody(<<"method", "params">>, m, i) :
        m \in {"receipts.get", ""}, i \in IdParams}
\* The X-Auth-Signature header the provider sends with a body.
ProviderSignature(data) == Some(_generate_signature(SecretKey, data))
\* The headers that are not the provider's: absent, a signature under
\* another key, the provider's signature of another body.
BadSignatureHeaders(data) ==
    {None,
     Some(_generate_signature(OtherKey, data)),
     Some(_generate_signature(SecretKey, [data EXCEPT !.params = <<>>,
                                                      !.method = "receipts.check"]))}
SignatureHeaders(data) == {ProviderSignature(data)} \cup BadSignatureHeaders(data)

\* PaymeWebhookData(**webhook_data_raw): method and params are required.
ValidWebhookSchema(data) ==
    HasKey(data, "method") /\ HasKey(data, "params") /\ data.params_type = "object"

\* The branch of payme_webhook for one parsed event: update the payment the
\* lookup returns, then for receipts.pay look it up again and activate.
ApplyWebhookEvent(parsed) ==
    LET status == IF parsed.type = "payment_success" THEN "PAID" ELSE "CANCELLED"
        found == get_payment_by_payme_transaction(payments, parsed.transaction_id)
    IN IF found = {}
       THEN /\ resp' = HTTPException("payme_webhook", 500, "Failed to process webhook")
            /\ UNCHANGED <<payments, users>>
       ELSE \E payment_id \in found :
              /\ payments' = update_payment_from_webhook(
                                 payments, payment_id, status,
                                 parsed.paid_at, parsed.cheque_id, now)
              /\ resp' = Reply("payme_webhook", 200, TRUE, None)
              /\ IF parsed.type = "payment_success"
                 THEN \E again \in get_payment_by_payme_transaction(
                                       payments', parsed.transaction_id) :
                        IF payments'[again].tariff_id # None
                        THEN users' = activate_user_tariff(
                                          users, payments'[again].user_id,
                                          Val(payments'[again].tariff_id))
                        ELSE users' = users
                 ELSE users' = users

\* POST /payme/webhook
payme_webhook(data, signature) ==
    /\ UNCHANGED <<now, tariffs, gatewayLog, inflight, probe,
                 limiterVars, likeVars>>
    /\ IF ~ValidWebhookSchema(data)
       THEN /\ resp' = HTTPException("payme_webhook", 400, "Invalid webhook payload")
            /\ UNCHANGED <<payments, users>>
       ELSE IF signature = None
       THEN /\ resp' = HTTPException("payme_webhook", 400, "Missing signature")
            /\ UNCHANGED <<payments, users>>
       ELSE IF ~verify_webhook_signature(data, signature)
       THEN /\ resp' = HTTPException("payme_webhook", 400, "Invalid signature")
            /\ UNCHANGED <<payments, users>>
       ELSE LET parsed == parse_webhook_data(data) IN
            IF parsed.type = "error"
            THEN /\ resp' = HTTPException("payme_webhook", 400, "Invalid webhook data")
                 /\ UNCHANGED <<payments, users>>
            ELSE IF parsed.type \in {"payment_success", "payment_cancelled"}
            THEN ApplyWebhookEvent(parsed)
            ELSE /\ resp' = Reply("payme_webhook", 200, TRUE, None)
                 /\ UNCHANGED <<payments, users>>

\* ------------------------------------- the webhook, one statement at a time
\* Two server processes may run payme_webhook for the same transaction.  The
\* handler is then two database statements: the SELECT of
\* get_payment_by_payme_transaction, and the UPDATE that session.commit()
\* flushes for the row it loaded (followed by the activation).
CancelEvents ==
    {WebhookBody(<<"method", "params">>, "receipts.cancel", << <<"id", t>> >>) :
        t \in TxnIds}

\* payme_webhook up to the SELECT of update_payment_from_webhook.
webhook_select(w, data, signature) ==
    /\ inflight[w].pc = "idle"
    /\ ValidWebhookSchema(data)
    /\ verify_webhook_signature(data, signature)
    /\ LET parsed == parse_webhook_data(data)
           found == get_payment_by_payme_transaction(payments, parsed.transaction_id)
       IN /\ parsed.type \in {"payment_success", "payment_cancelled"}
          /\ IF found = {}
             THEN /\ resp' = HTTPException("payme_webhook", 500, "Failed to process webhook")
                  /\ UNCHANGED inflight
             ELSE \E payment_id \in found :
                    /\ inflight' = [inflight EXCEPT ![w] =
                           [pc |-> "loaded", parsed |-> parsed,
                            payment_id |-> payment_id,
                            loaded |-> payments[payment_id], utcnow |-> now]]
                    /\ UNCHANGED resp
    /\ UNCHANGED <<now, tariffs, users, payments, gatewayLog, probe,
                 limiterVars, likeVars>>

\* The UPDATE of session.commit(): the columns whose assigned value differs
\* from the value loaded, written to the row by primary key whatever the
\* row holds by then; then the activation of payme_webhook.
webhook_commit(w) ==
    /\ inflight[w].pc = "loaded"
    /\ LET h == inflight[w]
           status == IF h.parsed.type = "payment_success" THEN "PAID" ELSE "CANCELLED"
           assigned == update_payment_from_webhook(
                           <<h.loaded>>, 1, status, h.parsed.paid_at,
                           h.parsed.cheque_id, h.utcnow)[1]
           row == payments[h.payment_id]
           written == [row EXCEPT
                         !.status = IF assigned.status # h.loaded.status
                                    THEN assigned.status ELSE row.status,
                         !.paid_at = IF assigned.paid_at # h.loaded.paid_at
                                     THEN assigned.paid_at ELSE row.paid_at]
       IN /\ payments' = [payments EXCEPT ![h.payment_id] = written]
          /\ IF h.parsed.type = "payment_success"
             THEN \E again \in get_payment_by_payme_transaction(
                                   payments', h.parsed.transaction_id) :
                    IF payments'[again].tariff_id # None
                    THEN users' = activate_user_tariff(
                                      users, payments'[again].user_id,
                                      Val(payments'[again].tariff_id))
                    ELSE users' = users
             ELSE users' = users
    /\ resp' = Reply("payme_webhook", 200, TRUE, None)
    /\ inflight' = [inflight EXCEPT ![w] = Idle]
    /\ UNCHANGED <<now, tariffs, gatewayLog, probe,
                 limiterVars, likeVars>>

\* --------------------------------------------------------- admin requests
\* POST /payme/cancel-payment/{transaction_id}: the handler calls
\* payme_service.cancel_transaction(transaction_id) without the required
\* `reason` argument; the TypeError is answered 500 by `except Exception`.
cancel_payment(transaction_id) ==
    /\ UNCHANGED <<now, tariffs, users, payments, gatewayLog, inflight, probe,
                 limiterVars, likeVars>>
    /\ IF transaction_id \in ShortTxnIds
       THEN resp' = HTTPException("cancel_payment", 400, "Invalid transaction ID format")
       ELSE IF get_payment_by_payme_transaction(payments, Some(transaction_id)) = {}
       THEN resp' = HTTPException("cancel_payment", 404, "Payment not found")
       ELSE resp' = HTTPException("cancel_payment", 500, "Internal server error")

\* PATCH /users/{user_id}/tariff/{tariff_id} (admin): UserCRUD.get_user_by_id,
\* then UserCRUD.update_user_tariff.
AdminUserIds == UserIds \cup {9}
update_user_tariff(user_id, tariff_id) ==
    /\ UNCHANGED <<now, tariffs, payments, gatewayLog, inflight, probe,
                 limiterVars, likeVars>>
    /\ IF user_id \notin DOMAIN users
       THEN /\ resp' = HTTPException("update_user_tariff", 404, "User with ID")
            /\ UNCHANGED users
       ELSE IF GetTariff(tariff_id) = None
       THEN /\ resp' = HTTPException("update_user_tariff", 404, "Tariff with id")
            /\ UNCHANGED users
       ELSE /\ users' = [users EXCEPT
                            ![user_id].tariff_id = Some(tariff_id),
                            ![user_id].tariff_expires_at =
                                Some(now + Val(GetTariff(tariff_id)).duration_days)]
            /\ resp' = Reply("update_user_tariff", 200, TRUE, None)

\* The dependency get_user_tariff of the card endpoints: the tariff whose
\* limits TariffValidator applies, or 403.  tariff_expires_at is not read.
get_user_tariff(current_user) ==
    /\ UNCHANGED <<now, tariffs, users, payments, gatewayLog, inflight, probe,
                 limiterVars, likeVars>>
    /\ IF users[current_user].tariff_id = None
       THEN resp' = HTTPException("get_user_tariff", 403, "No active tariff found")
       ELSE LET tariff == GetTariff(Val(users[current_user].tariff_id)) IN
            IF tariff = None \/ ~Val(tariff).is_active
            THEN resp' = HTTPException("get_user_tariff", 403, "Your tariff is not active")
            ELSE resp' = Reply("get_user_tariff", 200, TRUE, None)

\* ------------------------------------------------ registration and startup
\* The free plan that startup and registration create when they find none.
FreeDurationDays == 30
FreeTariffRow ==
    [price |-> 0, duration_days |-> FreeDurationDays, is_active |-> TRUE]
\* select(Tariff).where(Tariff.price == 0)
FreeTariffRows(ts) == {i \in DOMAIN ts : ts[i].price = 0}
\* An account row whose expiry is the moment of the write, not the end of
\* the plan.
NewAccountMutantExpiresNow(tariff_id, tariff, utcnow) ==
    [tariff_id |-> Some(tariff_id), tariff_expires_at |-> Some(utcnow)]
\* The subscription fields register_user and ensure_users_have_tariff write.
NewAccount(tariff_id, tariff, utcnow) ==
    [tariff_id |-> Some(tariff_id),
     tariff_expires_at |-> Some(utcnow + tariff.duration_days)]
\* The default admin that ensure_admin_exists creates: no tariff.
DefaultAdmin == [tariff_id |-> None, tariff_expires_at |-> None]

\* The first statement of ensure_free_tariff_exists, ensure_users_have_tariff
\* and register_user: the SELECT of a price-0 tariff, .first() of the rows.
Callers == {"ensure_free_tariff_exists", "ensure_users_have_tariff", "register_user"}
select_free_tariff(w, caller) ==
    /\ inflight[w].pc = "idle"
    /\ caller = "register_user" => Len(users) <= MaxAccounts
    /\ \E free \in IF FreeTariffRows(tariffs) = {} THEN {None}
                   ELSE {Some(i) : i \in FreeTariffRows(tariffs)} :
          inflight' = [inflight EXCEPT ![w] = [pc |-> caller, free |-> free]]
    /\ UNCHANGED <<now, tariffs, users, payments, gatewayLog, resp, probe,
                 limiterVars, likeVars>>
\* `if not free_tariff:` insert the free plan and commit.
WithFreeTariff(ts, free) == IF free = None THEN Append(ts, FreeTariffRow) ELSE ts
FreeTariffIdAfter(ts, free) == IF free = None THEN Len(ts) + 1 ELSE Val(free)

\* ensure_free_tariff_exists after its SELECT.
ensure_free_tariff_exists(w) ==
    /\ inflight[w].pc = "ensure_free_tariff_exists"
    /\ tariffs' = WithFreeTariff(tariffs, inflight[w].free)
    /\ inflight' = [inflight EXCEPT ![w] = Idle]
    /\ UNCHANGED <<now, users, payments, gatewayLog, resp, probe,
                 limiterVars, likeVars>>

\* ensure_users_have_tariff after its SELECT: every account without tariff
\* gets the free plan.
ensure_users_have_tariff(w) ==
    /\ inflight[w].pc = "ensure_users_have_tariff"
    /\ tariffs' = WithFreeTariff(tariffs, inflight[w].free)
    /\ LET free_id == FreeTariffIdAfter(tariffs, inflight[w].free) IN
       users' = [u \in DOMAIN users |->
                    IF users[u].tariff_id = None
                    THEN NewAccount(free_id, tariffs'[free_id], now)
                    ELSE users[u]]
    /\ inflight' = [inflight EXCEPT ![w] = Idle]
    /\ UNCHANGED <<now, payments, gatewayLog, resp, probe,
                 limiterVars, likeVars>>

\* AuthCRUD.register_user after its SELECT, for a login no account has.
register_user(w) ==
    /\ inflight[w].pc = "register_user"
    /\ tariffs' = WithFreeTariff(tariffs, inflight[w].free)
    /\ LET free_id == FreeTariffIdAfter(tariffs, inflight[w].free) IN
       users' = Append(users, NewAccount(free_id, tariffs'[free_id], now))
    /\ resp' = Reply("register_user", 201, TRUE, None)
    /\ inflight' = [inflight EXCEPT ![w] = Idle]
    /\ UNCHANGED <<now, payments, gatewayLog, probe,
                 limiterVars, likeVars>>

\* The first startup on an empty database, after create_db_and_tables and
\* ensure_admin_exists.
InitBoot ==
    /\ now = 0
    /\ tariffs = <<>>
    /\ users = <<DefaultAdmin>>
    /\ payments = <<>>
    /\ gatewayLog = {}
    /\ resp = NoResp
    /\ inflight = [w \in WorkerIds |-> Idle]
    /\ probe = NoProbe
    /\ InitLimiter
    /\ InitLikes

\* --------------------------------------------------------- the rate limiter
\* Two of the decorated handlers of auth_router with their decorator
\* arguments: @rate_limit(times=5, minutes=60) on register_user and
\* @rate_limit(times=3, minutes=15) on send_verification_code.
RateLimited ==
    [register_user |-> [times |-> 5, minutes |-> 60],
     send_verification_code |-> [times |-> 3, minutes |-> 15]]
LimitedFuncs == DOMAIN RateLimited
\* request.client.host of the calls that carry a request; None is a call
\* whose arguments hold no request.
ClientIps == {"10.0.0.1", "10.0.0.2"}
Requests == {None} \cup {Some(ip) : ip \in ClientIps}

\* key = f"{func.__name__}:{client_ip}"
Key(func_name, client_ip) == func_name \o ":" \o client_ip

\* The observer of one key: a window opens with the first call let through
\* and lasts minutes * 60 seconds; `calls` counts the calls let through in it.
Observe(seen, key, func_name, minutes) ==
    IF key \in DOMAIN seen /\ clock - seen[key].start < minutes * 60
    THEN [seen EXCEPT ![key].calls = @ + 1]
    ELSE (key :> [func |-> func_name, start |-> clock, calls |-> 1]) @@ seen

\* The loop "Clean up old entries": it walks every key of the store and
\* compares each age with the `minutes` of the decorator that is running.
CleanUp(store, minutes) ==
    LET kept == {k \in DOMAIN store :
                    ~(clock - store[k].timestamp > minutes * 60)}
    IN  [k \in kept |-> store[k]]

\* wrapper(*args, **kwargs) of the decorator around func_name.
wrapper(func_name, request) ==
    LET times == RateLimited[func_name].times
        minutes == RateLimited[func_name].minutes
    IN
    /\ IF request = None
       THEN /\ resp' = Reply(func_name, 200, TRUE, None)
            /\ UNCHANGED <<rate_limit_store, admitted>>
       ELSE LET client_ip == Val(request)
                key == Key(func_name, client_ip)
                known == key \in DOMAIN rate_limit_store
                inWindow ==
                    known /\ clock - rate_limit_store[key].timestamp
                                 < minutes * 60
            IN  IF inWindow /\ rate_limit_store[key].count >= times
                THEN /\ resp' = HTTPException(func_name, 429,
                                              "Rate limit exceeded")
                     /\ UNCHANGED <<rate_limit_store, admitted>>
                ELSE LET counted ==
                             IF inWindow
                             THEN [rate_limit_store EXCEPT
                                       ![key].count = @ + 1]
                             ELSE (key :> [count |-> 1,
                                           timestamp |-> clock])
                                  @@ rate_limit_store
                     IN  /\ rate_limit_store' = CleanUp(counted, minutes)
                         /\ admitted' = Observe(admitted, key, func_name,
                                                minutes)
                         /\ resp' = Reply(func_name, 200, TRUE, None)
    /\ UNCHANGED <<now, tariffs, users, payments, gatewayLog, inflight, probe,
                   clock, likeVars>>

\* Time passes between calls: a quarter of an hour at a time.
ClockTick ==
    /\ clock < MaxClock * 15 * 60
    /\ clock' = clock + 15 * 60
    /\ UNCHANGED <<now, tariffs, users, payments, gatewayLog, resp, inflight,
                   probe, rate_limit_store, admitted, likeVars>>

\* ------------------------------------------------------------------- likes
\* card_id of a like request; card 3 does not exist.
RequestCardIds == CardIds \cup {3}
LikeRow(card_id, user_id) == [card_id |-> card_id, user_id |-> user_id]
NonNegative(n) == IF n < 0 THEN 0 ELSE n

\* POST /cards/{card_id}/like for the authenticated user_id; the reply's
\* `success` carries is_liked.
toggle_like(card_id, user_id) ==
    /\ IF card_id \notin DOMAIN cards
       THEN /\ resp' = HTTPException("toggle_like", 404, "Card with ID")
            /\ UNCHANGED likeVars
       ELSE IF user_id \notin DOMAIN users
       THEN /\ resp' = HTTPException("toggle_like", 404, "User with ID")
            /\ UNCHANGED likeVars
       ELSE LET existing == {l \in likes : /\ l.card_id = card_id
                                           /\ l.user_id = user_id}
            IN  IF existing # {}
                THEN \E existing_like \in existing :
                        /\ likes' = likes \ {existing_like}
                        /\ cards' = [cards EXCEPT ![card_id].like_count =
                                         NonNegative(@ - 1)]
                        /\ resp' = Reply("toggle_like", 200, FALSE, None)
                ELSE /\ likes' = likes \cup {LikeRow(card_id, user_id)}
                     /\ cards' = [cards EXCEPT ![card_id].like_count = @ + 1]
                     /\ resp' = Reply("toggle_like", 200, TRUE, None)
    /\ UNCHANGED <<now, tariffs, users, payments, gatewayLog, inflight, probe,
                   limiterVars>>

\* DELETE /users/{user_id}: the account itself or an administrator.  The
\* rows of the account in review, like and view go, then the account.
DeleteCallers ==
    {[id |-> u, role |-> "user"] : u \in UserIds}
        \cup {[id |-> 0, role |-> "admin"]}
delete_user(user_id, current_user) ==
    /\ current_user.role = "user" => current_user.id \in DOMAIN users
    /\ IF user_id \notin DOMAIN users
       THEN /\ resp' = HTTPException("delete_user", 404, "User with ID")
            /\ UNCHANGED <<users, likes>>
       ELSE IF current_user.id # user_id /\ current_user.role # "admin"
       THEN /\ resp' = HTTPException("delete_user", 403,
                                     "Not authorized to delete this user")
            /\ UNCHANGED <<users, likes>>
       ELSE /\ likes' = {l \in likes : l.user_id # user_id}
            /\ users' = [u \in DOMAIN users \ {user_id} |-> users[u]]
            /\ resp' = Reply("delete_user", 200, TRUE, None)
    /\ UNCHANGED <<now, tariffs, payments, gatewayLog, inflight, probe,
                   limiterVars, cards>>

\* ------------------------------------------------------- status requests
\* GET /payme/check-status/{transaction_id}: the handler reads
\* payme_result['status'] from a success dict that has no such key; the
\* KeyError is answered 500 by `except Exception`.
check_transaction_status(transaction_id) ==
    /\ UNCHANGED <<now, tariffs, users, payments, inflight, probe,
                 limiterVars, likeVars>>
    /\ IF transaction_id \in ShortTxnIds
       THEN /\ resp' = HTTPException("check_transaction_status", 400,
                                     "Invalid transaction ID format")
            /\ UNCHANGED gatewayLog
       ELSE IF get_payment_by_payme_transaction(payments, Some(transaction_id)) = {}
       THEN /\ resp' = HTTPException("check_transaction_status", 404,
                                     "Transaction not found in our system")
            /\ UNCHANGED gatewayLog
       ELSE \E reply \in GatewayReplies,
               p \in get_payment_by_payme_transaction(payments, Some(transaction_id)) :
            LET payme_result == PaymeService_check_transaction(transaction_id, reply)
            IN /\ gatewayLog' = gatewayLog \cup {<<"CheckTransaction", p, reply>>}
               /\ resp' = IF payme_result.raised \/ payme_result.success
                          THEN HTTPException("check_transaction_status", 500,
                                             "Internal server error")
                          ELSE Reply("check_transaction_status", 200, FALSE, None)

\* ------------------------------------------- the gateway client by itself
\* One call of a method of PaymeService from outside the handlers, with
\* what the provider answers to its request if it sends one.
ClientAmounts ==
    {IntPrice(InitTariffs[i].price) : i \in DOMAIN InitTariffs} \cup {-1}
OrderIds == {"", "1", "2"}
ClientTxnIds == TxnIds \cup {""}
CancelReasons == {1, 5}
ClientReplies == GatewayReplies \cup MalformedReplies
Probe(method, args, reply, outcome) ==
    [method |-> method, args |-> args,
     reply |-> IF outcome.called THEN Some(reply) ELSE None,
     outcome |-> outcome]

ClientCreatePayment(amount, order_id) ==
    /\ \E reply \in ClientReplies :
          probe' = Probe("create_payment", <<amount, order_id>>, reply,
                         PaymeService_create_payment(amount, order_id, reply))
    /\ UNCHANGED <<now, tariffs, users, payments, gatewayLog, resp, inflight,
                 limiterVars, likeVars>>

ClientCheckTransaction(transaction_id) ==
    /\ \E reply \in ClientReplies :
          probe' = Probe("check_transaction", <<transaction_id>>, reply,
                         PaymeService_check_transaction(transaction_id, reply))
    /\ UNCHANGED <<now, tariffs, users, payments, gatewayLog, resp, inflight,
                 limiterVars, likeVars>>

ClientCancelTransaction(transaction_id, reason) ==
    /\ \E reply \in ClientReplies :
          probe' = Probe("cancel_transaction", <<transaction_id, reason>>, reply,
                         PaymeService_cancel_transaction(transaction_id, reason, reply))
    /\ UNCHANGED <<now, tariffs, users, payments, gatewayLog, resp, inflight,
                 limiterVars, likeVars>>

\* --------------------------------------- the signature functions by themselves
\* The payloads signed and verified: the top-level keys in either insertion
\* order, with and without a top-level `signature` field, and the nested
\* params in either order.
KeyOrders ==
    {<<"method", "params">>, <<"params", "method">>,
     <<"method", "params", "signature">>, <<"signature", "method", "params">>}
SignMethods == {"receipts.pay", "receipts.cancel"}
SignParams ==
    {<<>>, << <<"id", "txn-0000-0001">> >>,
     << <<"id", "txn-0000-0001">>, <<"paid_at", TimeStr(0)>> >>,
     << <<"paid_at", TimeStr(0)>>, <<"id", "txn-0000-0001">> >>}
SignPayloads ==
    {[keys |-> ks, method |-> m, params |-> ps,
      signature |-> IF \E i \in 1..Len(ks) : ks[i] = "signature"
                    THEN <<"abc">> ELSE None] :
        ks \in KeyOrders, m \in SignMethods, ps \in SignParams}

\* The nested object with one entry removed, changed or added.
ParamChanges(ps) ==
    {SelectSeq(ps, LAMBDA e : e # ps[i]) : i \in 1..Len(ps)}
    \cup {[ps EXCEPT ![i] = <<ps[i][1], "changed">>] : i \in 1..Len(ps)}
    \cup {Append(ps, <<"cheque_id", "chq-1">>)}
\* A payload with one field changed, added or removed after signing.
Changes(data) ==
    {[data EXCEPT !.method = m] : m \in SignMethods \ {data.method}}
    \cup {[data EXCEPT !.params = q] : q \in ParamChanges(data.params)}
    \cup {[data EXCEPT !.keys = SelectSeq(@, LAMBDA k : k # "method")],
          [data EXCEPT !.keys = SelectSeq(@, LAMBDA k : k # "params")]}
    \cup (IF HasKey(data, "signature")
          THEN {[data EXCEPT !.signature = <<"xyz">>],
                [PopSignature(data) EXCEPT !.signature = None]}
          ELSE {[data EXCEPT !.keys = Append(@, "signature"),
                             !.signature = <<"abc">>]})
\* Signature arguments that are no digest: None, "", a text that is no hex.
MalformedSignatures == {None, Some(<<>>), Some(<<"not-a-digest">>)}

InitSign ==
    /\ now = 0
    /\ tariffs = InitTariffs
    /\ users = [u \in UserIds |-> RegisteredAccount(FreeTariffId, 1 - u)]
    /\ payments = <<>>
    /\ gatewayLog = {}
    /\ resp = NoResp
    /\ inflight = [w \in WorkerIds |-> Idle]
    /\ probe \in {[method |-> "payload", payload |-> d] : d \in SignPayloads}
    /\ InitLimiter
    /\ InitLikes

\* verify_webhook_signature(received, signature) for a payload that was
\* signed as `payload`.
Verify(payload, received, signature) ==
    /\ probe' = [method |-> "verify_webhook_signature", payload |-> payload,
                 received |-> received, signature |-> signature,
                 verdict |-> verify_webhook_signature(received, signature)]
    /\ UNCHANGED <<now, tariffs, users, payments, gatewayLog, resp, inflight,
                 limiterVars, likeVars>>

VerifySigned ==
    /\ probe.method = "payload"
    /\ Verify(probe.payload, probe.payload,
              Some(_generate_signature(SecretKey, probe.payload)))

VerifyChanged ==
    /\ probe.method = "payload"
    /\ \E changed \in Changes(probe.payload) :
          Verify(probe.payload, changed,
                 Some(_generate_signature(SecretKey, probe.payload)))

VerifyMalformed ==
    /\ probe.method = "payload"
    /\ \E signature \in MalformedSignatures :
          Verify(probe.payload, probe.payload, signature)

\* _generate_signature for the payload and for a second payload; the
\* verdict is whether the two digests are equal.
SignBoth ==
    /\ probe.method = "payload"
    /\ \E other \in SignPayloads :
          probe' = [method |-> "_generate_signature", payload |-> probe.payload,
                    received |-> other,
                    signature |-> Some(_generate_signature(SecretKey, probe.payload)),
                    verdict |-> _generate_signature(SecretKey, probe.payload)
                                  = _generate_signature(SecretKey, other)]
    /\ UNCHANGED <<now, tariffs, users, payments, gatewayLog, resp, inflight,
                 limiterVars, likeVars>>

\* ------------------------------------------------- the parser by itself
\* The values a webhook payload is constructed from: which top-level keys
\* it has, its method, the entries of params, and whether params is a JSON
\* object or null.
ParseKeys == {<<>>, <<"params">>, <<"method">>, <<"method", "params">>}
ParseMethods == {"receipts.pay", "receipts.cancel", "receipts.get", ""}
Constructed ==
    [keys : ParseKeys, method : ParseMethods,
     id : {None, Some("txn-0000-0001")},
     cheque_id : {None, Some("chq-1")},
     amount : {None, Some(ToString(300))},
     paid_at : {None, Some(TimeStr(0))},
     params_type : {"object", "null"}]
Entry(k, v) == IF v = None THEN <<>> ELSE << <<k, Val(v)>> >>
ConstructPayload(c) ==
    [keys |-> c.keys,
     method |-> IF HasKey(c, "method") THEN c.method ELSE "",
     params |-> IF HasKey(c, "params") /\ c.params_type = "object"
                THEN Entry("id", c.id) \o Entry("cheque_id", c.cheque_id)
                     \o Entry("amount", c.amount) \o Entry("paid_at", c.paid_at)
                ELSE <<>>,
     signature |-> None,
     params_type |-> c.params_type]

InitParse ==
    /\ now = 0
    /\ tariffs = InitTariffs
    /\ users = [u \in UserIds |-> RegisteredAccount(FreeTariffId, 1 - u)]
    /\ payments = <<>>
    /\ gatewayLog = {}
    /\ resp = NoResp
    /\ inflight = [w \in WorkerIds |-> Idle]
    /\ probe \in {[method |-> "constructed", constructed |-> c] : c \in Constructed}
    /\ InitLimiter
    /\ InitLikes

\* parse_webhook_data applied to the payload constructed.
ParsePayload ==
    /\ probe.method = "constructed"
    /\ probe' = [method |-> "parse_webhook_data",
                 constructed |-> probe.constructed,
                 parsed |-> parse_webhook_data(ConstructPayload(probe.constructed))]
    /\ UNCHANGED <<now, tariffs, users, payments, gatewayLog, resp, inflight,
                 limiterVars, likeVars>>

\* A day passes.
Tick ==
    /\ now < MaxTime
    /\ now' = now + 1
    /\ UNCHANGED <<tariffs, users, payments, gatewayLog, resp, inflight, probe,
                 limiterVars, likeVars>>

\* ------------------------------------------------------- the specification
\* The amounts a create-payment request may carry: each price, and one
\* that is no tariff's price.
Amounts == {IntPrice(InitTariffs[i].price) : i \in DOMAIN InitTariffs} \cup {3}

Next ==
    \/ \E cu \in UserIds, uid \in UserIdStrs, tid \in RequestTariffIds,
          amount \in Amounts :
          create_payment(cu, uid, tid, amount)
    \/ \E cu \in UserIds, uid \in UserIdStrs, tid \in RequestTariffIds :
          payme_purchase_tariff(cu, uid, tid)
    \/ \E cu \in UserIds, tid \in RequestTariffIds : purchase_tariff(cu, tid)
    \/ \E data \in WebhookBodies : \E signature \in SignatureHeaders(data) :
          payme_webhook(data, signature)
    \/ \E t \in TxnIds \cup ShortTxnIds \cup {"txn-0000-0009"} : cancel_payment(t)
    \/ Tick

Spec == Init /\ [][Next]_vars

\* The purchase handlers with a provider that only reports payments, each
\* report under the provider's signature.
NextPay ==
    \/ \E cu \in UserIds, uid \in UserIdStrs, tid \in RequestTariffIds,
          amount \in Amounts :
          create_payment(cu, uid, tid, amount)
    \/ \E cu \in UserIds, uid \in UserIdStrs, tid \in RequestTariffIds :
          payme_purchase_tariff(cu, uid, tid)
    \/ \E cu \in UserIds, tid \in RequestTariffIds : purchase_tariff(cu, tid)
    \/ \E data \in PayEvents : payme_webhook(data, ProviderSignature(data))
    \/ Tick

SpecPay == Init /\ [][NextPay]_vars

\* The webhook endpoint open to anyone: purchases through POST
\* /tariffs/{id}/purchase, the provider's payment reports, and bodies sent
\* under a header that is not the provider's: a payment report, a
\* cancellation, a body without a method.
ForgedBodies ==
    PayEvents \cup CancelEvents
    \cup {WebhookBody(<<"params">>, "", <<>>)}
NextHook ==
    \/ \E cu \in UserIds, tid \in RequestTariffIds : purchase_tariff(cu, tid)
    \/ \E data \in PayEvents : payme_webhook(data, ProviderSignature(data))
    \/ \E data \in ForgedBodies : \E signature \in BadSignatureHeaders(data) :
          payme_webhook(data, signature)
    \/ Tick

SpecHook == Init /\ [][NextHook]_vars

\* The provider's events: purchases through POST /tariffs/{id}/purchase,
\* the provider's payment reports and its events of other methods.
NextEvents ==
    \/ \E cu \in UserIds, tid \in RequestTariffIds : purchase_tariff(cu, tid)
    \/ \E data \in PayEvents : payme_webhook(data, ProviderSignature(data))
    \/ \E data \in OtherEvents : payme_webhook(data, ProviderSignature(data))
    \/ Tick

SpecEvents == Init /\ [][NextEvents]_vars

\* The ledger with room for one payment more: purchases through POST
\* /tariffs/{id}/purchase and the provider's payment reports.
NextLedger ==
    \/ \E cu \in UserIds, tid \in RequestTariffIds :
          PurchaseTariffUpTo(MaxPayments + 1, cu, tid)
    \/ \E data \in PayEvents : payme_webhook(data, ProviderSignature(data))
    \/ Tick

SpecLedger == Init /\ [][NextLedger]_vars

\* The status endpoint: purchases through POST /tariffs/{id}/purchase and
\* status checks of the ids the gateway hands out and of a short id.
NextStatus ==
    \/ \E cu \in UserIds, tid \in RequestTariffIds : purchase_tariff(cu, tid)
    \/ \E t \in TxnIds \cup ShortTxnIds : check_transaction_status(t)
    \/ Tick

SpecStatus == Init /\ [][NextStatus]_vars

\* The gateway client called method by method, with every reply the
\* provider or the network can give.
NextClient ==
    \/ \E amount \in ClientAmounts, order_id \in OrderIds :
          ClientCreatePayment(amount, order_id)
    \/ \E t \in ClientTxnIds : ClientCheckTransaction(t)
    \/ \E t \in ClientTxnIds, reason \in CancelReasons :
          ClientCancelTransaction(t, reason)

SpecClient == Init /\ [][NextClient]_vars

\* Signing and verification applied to each payload of SignPayloads.
NextSign ==
    \/ VerifySigned
    \/ VerifyChanged
    \/ VerifyMalformed
    \/ SignBoth

SpecSign == InitSign /\ [][NextSign]_vars

\* The parser applied to each payload of Constructed.
NextParse == ParsePayload

SpecParse == InitParse /\ [][NextParse]_vars

\* POST /payme/create-payment with the owner the body names, an account
\* or an id no account has, and the provider's payment reports.
BodyUserIds == UserIdStrs \cup {"9"}
NextOwner ==
    \/ \E cu \in UserIds, uid \in BodyUserIds, tid \in RequestTariffIds,
          amount \in Amounts :
          create_payment(cu, uid, tid, amount)
    \/ \E data \in PayEvents : payme_webhook(data, ProviderSignature(data))
    \/ Tick

SpecOwner == Init /\ [][NextOwner]_vars

\* The subscription fields and their writers: purchases through POST
\* /tariffs/{id}/purchase, the provider's payment reports, the admin's
\* PATCH of an account's tariff, and the feature gate that reads them.
NextAdmin ==
    \/ \E cu \in UserIds, tid \in RequestTariffIds : purchase_tariff(cu, tid)
    \/ \E data \in PayEvents : payme_webhook(data, ProviderSignature(data))
    \/ \E uid \in AdminUserIds, tid \in RequestTariffIds : update_user_tariff(uid, tid)
    \/ \E cu \in UserIds : get_user_tariff(cu)
    \/ Tick

SpecAdmin == Init /\ [][NextAdmin]_vars

\* Startup and registration run by two server processes, each function a
\* SELECT and the writes that follow it.
NextBoot ==
    \/ \E w \in WorkerIds, caller \in Callers : select_free_tariff(w, caller)
    \/ \E w \in WorkerIds : ensure_free_tariff_exists(w)
    \/ \E w \in WorkerIds : ensure_users_have_tariff(w)
    \/ \E w \in WorkerIds : register_user(w)
    \/ Tick

SpecBoot == InitBoot /\ [][NextBoot]_vars

\* The rate limiter by itself: calls of the two decorated functions, with
\* and without a request, as time passes.
NextRate ==
    \/ \E f \in LimitedFuncs, r \in Requests : wrapper(f, r)
    \/ ClockTick

SpecRate == Init /\ [][NextRate]_vars

\* Likes: the like requests of the accounts and account deletions.
NextLikes ==
    \/ \E c \in RequestCardIds, u \in UserIds : toggle_like(c, u)
    \/ \E u \in AdminUserIds, cu \in DeleteCallers : delete_user(u, cu)

SpecLikes == Init /\ [][NextLikes]_vars

\* The same program with the webhook handler run by two processes, each
\* request a SELECT and a later UPDATE.
NextConc ==
    \/ \E cu \in UserIds, tid \in RequestTariffIds : purchase_tariff(cu, tid)
    \/ \E w \in WorkerIds, data \in PayEvents \cup CancelEvents :
          webhook_select(w, data, ProviderSignature(data))
    \/ \E w \in WorkerIds : webhook_commit(w)
    \/ Tick

SpecConc == Init /\ [][NextConc]_vars

\* ================================================================ properties
TerminalStatuses == {"PAID", "FAILED", "CANCELLED"}
PurchaseOps == {"create_payment", "payme_purchase_tariff", "purchase_tariff"}

\* A purchase request as a handler receives it: the authenticated account,
\* the account the body names, the tariff, and the amount when the body
\* carries one.
PurchaseRequests ==
    [op : {"create_payment"}, current_user : UserIds, user_id : UserIdStrs,
     tariff_id : RequestTariffIds, amount : {Some(a) : a \in Amounts}]
    \cup [op : {"payme_purchase_tariff"}, current_user : UserIds,
          user_id : UserIdStrs, tariff_id : RequestTariffIds, amount : {None}]
    \cup {[op |-> "purchase_tariff", current_user |-> cu,
           user_id |-> ToString(cu), tariff_id |-> tid, amount |-> None] :
            cu \in UserIds, tid \in RequestTariffIds}
PurchaseStep(r) ==
    CASE r.op = "create_payment" ->
           create_payment(r.current_user, r.user_id, r.tariff_id, Val(r.amount))
      [] r.op = "payme_purchase_tariff" ->
           payme_purchase_tariff(r.current_user, r.user_id, r.tariff_id)
      [] OTHER -> purchase_tariff(r.current_user, r.tariff_id)
\* The requests a step that answered `op` may have been.
RequestsOf(op) == {r \in PurchaseRequests : r.op = op}

\* The request names a tariff on sale, at its integer price.
OnSaleAtPrice(r) ==
    /\ r.tariff_id \in DOMAIN tariffs
    /\ tariffs[r.tariff_id].is_active
    /\ r.amount # None => Val(r.amount) = IntPrice(tariffs[r.tariff_id].price)
HasUnexpiredPlan(user) ==
    /\ user.tariff_id # None
    /\ user.tariff_expires_at # None
    /\ Val(user.tariff_expires_at) > now
HasNoPlanOrExpired(user) ==
    \/ user.tariff_id = None
    \/ user.tariff_expires_at # None /\ Val(user.tariff_expires_at) < now
\* The step opened a payment.
PaymentOpened == Len(payments') = Len(payments) + 1

\* C1: a payment whose status is PAID, FAILED or CANCELLED keeps that status
\* in every later step.
C1_TerminalStatusIsFinal ==
    [][\A p \in 1..Len(payments) :
          payments[p].status \in TerminalStatuses
              => payments'[p].status = payments[p].status]_vars

\* C2: a receipts.pay webhook under the provider's signature for a
\* transaction whose payment is already PAID changes no account: the plan
\* and its expiry stay as the first delivery left them.
C2_RepeatedPayActivatesOnce ==
    [][\A data \in PayEvents :
          LET found == get_payment_by_payme_transaction(
                           payments, ParamGet(data.params, "id"))
          IN (/\ found # {}
              /\ \A p \in found : payments[p].status = "PAID"
              /\ payme_webhook(data, ProviderSignature(data)))
                 => users' = users]_vars

\* C3: once paid_at of a payment holds a value, no step changes it.
C3_PaidAtWrittenOnce ==
    [][\A p \in 1..Len(payments) :
          payments[p].paid_at # None
              => payments'[p].paid_at = payments[p].paid_at]_vars

\* C4: of two webhook requests that both read the payment as PENDING, the
\* one whose write lands second finds the status already changed and
\* writes nothing: it changes no payment and no account.
C4_SecondWriterIsNoOp ==
    [][\A w \in WorkerIds :
          (/\ webhook_commit(w)
           /\ inflight[w].loaded.status = "PENDING"
           /\ payments[inflight[w].payment_id].status # "PENDING")
              => UNCHANGED <<payments, users>>]_vars

\* C5: a webhook whose X-Auth-Signature header is missing or is not the
\* provider's signature of the body is answered 400, and no payment and no
\* account changes.  (A step that answers a webhook is either such a
\* refusal, or it is not the handling of a body under a bad header.)
C5_BadSignatureRejected ==
    [][\/ /\ resp'.op = "payme_webhook"
          /\ resp'.code = 400
          /\ UNCHANGED <<payments, users>>
       \/ resp'.op # "payme_webhook"
       \/ \A data \in ForgedBodies : \A signature \in BadSignatureHeaders(data) :
             ~payme_webhook(data, signature)]_vars
\* A forged webhook was refused while a payment was waiting for its report.
C5_Witness ==
    /\ resp.op = "payme_webhook"
    /\ resp.detail = "Invalid signature"
    /\ \E p \in 1..Len(payments) :
          /\ payments[p].status = "PENDING"
          /\ payments[p].payme_transaction_id # None

\* C6: a receipts.pay or receipts.cancel webhook under the provider's
\* signature whose transaction id matches no payment is answered with an
\* error status that is neither the validation status (400) nor the
\* unexpected-failure status (500), and changes no payment and no account.
C6_UnknownTransactionIsNotFound ==
    [][\A data \in WebhookBodies :
          (/\ data.method \in {"receipts.pay", "receipts.cancel"}
           /\ HasKey(data, "method")
           /\ get_payment_by_payme_transaction(
                  payments, ParamGet(data.params, "id")) = {}
           /\ payme_webhook(data, ProviderSignature(data)))
              => /\ resp'.code \notin {200, 400, 500}
                 /\ UNCHANGED <<payments, users>>]_vars

\* C7: a purchase request that names a missing tariff, a tariff not on
\* sale, an amount other than the tariff's integer price, or a plan that is
\* not more expensive than the account's unexpired plan is answered 404 or
\* 400; no payment is opened, no gateway call is made, no account changes.
\* (A step is either such a refusal, or it is not the handling of such a
\* request.)
C7_RefusedPurchaseHasNoEffect ==
    [][\/ /\ resp'.code \in {400, 404}
          /\ UNCHANGED <<payments, users, gatewayLog>>
       \/ \A r \in RequestsOf(resp'.op) :
             ~ /\ \/ ~OnSaleAtPrice(r)
                  \/ /\ HasUnexpiredPlan(users[r.current_user])
                     /\ tariffs[r.tariff_id].price
                          <= tariffs[Val(users[r.current_user].tariff_id)].price
               /\ PurchaseStep(r)]_vars
\* A request with a wrong amount was refused after a payment had been opened.
C7_Witness ==
    /\ resp.op = "create_payment"
    /\ resp.detail = "Amount does not match tariff price"
    /\ payments # <<>>
    /\ gatewayLog # {}

\* C8: for every account and every tariff, in both handlers' rule: if the
\* account's plan expires in the future, the purchase is allowed exactly
\* when the tariff's price is greater than the current plan's price (an
\* equal price is denied); if the account has no plan or the plan's expiry
\* is in the past, the purchase is allowed whatever the prices.
C8_CanPurchaseRule ==
    \A u \in UserIds, t \in DOMAIN tariffs :
       \A allowed \in {CanPurchase(users[u], tariffs[t]),
                       TariffRouterCanPurchase(users[u], tariffs[t])} :
          /\ HasUnexpiredPlan(users[u])
                => (allowed <=> tariffs[t].price
                                  > tariffs[Val(users[u].tariff_id)].price)
          /\ HasNoPlanOrExpired(users[u]) => allowed
\* On the first day, with every account on the free plan, a purchase was
\* denied: the first account asked for the free plan it already holds (the
\* second account's plan is no longer unexpired, and the other tariff on
\* sale costs more).
C8_Witness ==
    /\ now = 0
    /\ resp.op \in PurchaseOps
    /\ resp.detail = "You cannot downgrade to a cheaper tariff"
    /\ \A u \in UserIds : users[u].tariff_id = Some(FreeTariffId)
\* After its free plan had expired, an account bought the free plan again.
C8_WitnessExpired ==
    /\ now > 0
    /\ \E p \in 1..Len(payments) :
          /\ payments[p].tariff_id = Some(FreeTariffId)
          /\ payments[p].user_id = "2"

\* C9: when a purchase handler answers success with transaction id T, the
\* payment it opened is PENDING, carries T, belongs to the authenticated
\* account, names the requested tariff, and is what the lookup by T finds.
C9_SuccessAttachesToPurchaser ==
    [][\A r \in RequestsOf(resp'.op) :
          (PurchaseStep(r) /\ resp'.success)
              => LET p == Len(payments') IN
                 /\ PaymentOpened
                 /\ get_payment_by_payme_transaction(
                        payments', resp'.transaction_id) = {p}
                 /\ payments'[p].status = "PENDING"
                 /\ payments'[p].user_id = ToString(r.current_user)
                 /\ payments'[p].tariff_id = Some(r.tariff_id)]_vars

\* C10: when the CreateTransaction call of a purchase is answered by an
\* error envelope, a non-2xx status or a connection failure, the payment
\* opened for the purchase is FAILED with an error code and a message (the
\* provider's message when it sent one), and the handler answers
\* success = false.
GatewayFailureKinds == {"error", "http_error", "connection_error"}
C10_GatewayFailureMarksFailed ==
    [][\A call \in gatewayLog' \ gatewayLog :
          call[3].kind \in GatewayFailureKinds
              => LET p == call[2] IN
                 /\ p = Len(payments) + 1
                 /\ p = Len(payments')
                 /\ payments'[p].status = "FAILED"
                 /\ payments'[p].payme_error_code # None
                 /\ payments'[p].payme_error_message # None
                 /\ call[3].message # None
                      => payments'[p].payme_error_message = call[3].message
                 /\ resp'.op \in PurchaseOps
                 /\ resp'.success = FALSE]_vars
\* The provider refused a transaction and the payment records its message.
C10_Witness ==
    /\ resp.op = "purchase_tariff"
    /\ resp.success = FALSE
    /\ \E p \in 1..Len(payments) :
          /\ payments[p].status = "FAILED"
          /\ payments[p].payme_error_code = Some("PAYME_CREATE_FAILED")
          /\ payments[p].payme_error_message = Some("Insufficient funds")
          /\ \E call \in gatewayLog : call[2] = p /\ call[3].kind = "error"

\* C11: when the CreateTransaction call of a purchase runs into its timeout,
\* the payment opened for the purchase is left PENDING.
C11_TimeoutLeavesPending ==
    [][\A call \in gatewayLog' \ gatewayLog :
          (call[1] = "CreateTransaction" /\ call[3].kind = "timeout")
              => payments'[call[2]].status = "PENDING"]_vars

\* C14: an admin cancel of a transaction id that a payment carries sends a
\* CancelTransaction request to the gateway and is answered with the
\* gateway's result, not with an error status.
C14_AdminCancelCallsGateway ==
    [][\A t \in TxnIds :
          (/\ get_payment_by_payme_transaction(payments, Some(t)) # {}
           /\ cancel_payment(t))
              => /\ \E call \in gatewayLog' \ gatewayLog :
                       call[1] = "CancelTransaction"
                 /\ resp'.code = 200]_vars

\* C17: every payment row has amount > 0.
C17_AmountPositive ==
    \A p \in 1..Len(payments) : payments[p].amount > 0

\* C12: no two payments carry the same gateway transaction id.
C12_TransactionIdUnique ==
    \A p, q \in 1..Len(payments) :
       (p # q /\ payments[p].payme_transaction_id # None)
           => payments[p].payme_transaction_id # payments[q].payme_transaction_id

\* C13: a receipts.pay webhook under the provider's signature leaves every
\* PENDING payment that carries its transaction id PAID, and the payment's
\* owner on the payment's tariff with expiry = now + duration_days.
C13_PayWebhookActivatesPurchase ==
    [][\A data \in PayEvents :
          payme_webhook(data, ProviderSignature(data))
              => \A p \in 1..Len(payments) :
                    (/\ payments[p].payme_transaction_id
                           = ParamGet(data.params, "id")
                     /\ payments[p].status = "PENDING")
                        => /\ payments'[p].status = "PAID"
                           /\ \A u \in GetUser(payments[p].user_id) :
                                 /\ users'[u].tariff_id = payments[p].tariff_id
                                 /\ users'[u].tariff_expires_at
                                      = Some(now + tariffs[Val(payments[p].tariff_id)]
                                                       .duration_days)]_vars

\* C15: a status check of a transaction id that a payment carries, answered
\* by the gateway with the transaction's state, returns a success result;
\* a status check of an id that no payment carries is answered not-found
\* and sends nothing to the gateway.
C15_CheckStatusProxiesGateway ==
    [][\A t \in TxnIds : check_transaction_status(t) =>
          IF get_payment_by_payme_transaction(payments, Some(t)) = {}
          THEN resp'.code = 404 /\ gatewayLog' = gatewayLog
          ELSE \A call \in gatewayLog' \ gatewayLog :
                  (call[3].kind = "result" /\ call[3].transaction # None)
                      => resp'.code = 200 /\ resp'.success]_vars

\* C16: a call of create_payment, check_transaction or cancel_transaction
\* hands its caller a result and never an exception; the result has
\* success = false and a message when the arguments were invalid or the
\* gateway did not answer with a result, and success = true only when the
\* gateway's reply carries a result.
C16_ClientNeverRaises ==
    probe.method # "none" =>
        /\ ~probe.outcome.raised
        /\ probe.outcome.success
              => /\ probe.reply # None
                 /\ Val(probe.reply).kind = "result"
                 /\ Val(probe.reply).transaction # None
        /\ (probe.reply = None \/ Val(probe.reply).kind # "result")
              => ~probe.outcome.success /\ probe.outcome.error # ""

\* C18 as stated: a webhook under the provider's signature whose method is
\* neither receipts.pay nor receipts.cancel is acknowledged with ok and
\* changes no payment and no account.
C18_OtherMethodAcknowledged ==
    [][\A data \in OtherEvents :
          payme_webhook(data, ProviderSignature(data))
              => /\ resp'.code = 200 /\ resp'.success
                 /\ UNCHANGED <<payments, users>>]_vars
\* C18, amended: a webhook under the provider's signature whose method is
\* not empty and is neither receipts.pay nor receipts.cancel is acknowledged
\* with ok; with or without a method it changes no payment and no account.
C18_NamedOtherMethodAcknowledged ==
    [][/\ \/ resp'.code = 200 /\ resp'.success
          \/ \A data \in OtherEvents :
                data.method # "" => ~payme_webhook(data, ProviderSignature(data))
       /\ \/ UNCHANGED <<payments, users>>
          \/ \A data \in OtherEvents :
                ~payme_webhook(data, ProviderSignature(data))]_vars
\* An event of another method was acknowledged while a payment waits for
\* its report, and the payment still waits.
C18_Witness ==
    /\ resp.op = "payme_webhook"
    /\ resp.code = 200
    /\ \E p \in 1..Len(payments) :
          payments[p].status = "PENDING" /\ payments[p].payme_transaction_id # None
    /\ \A p \in 1..Len(payments) : payments[p].status \notin {"PAID", "CANCELLED"}

\* The payload without its top-level `signature` field.
WithoutSignatureField(data) == [PopSignature(data) EXCEPT !.signature = None]
\* A verification of a payload under the digest made when it was signed.
VerifiedUnderOwnDigest ==
    /\ probe.method = "verify_webhook_signature"
    /\ probe.signature = Some(_generate_signature(SecretKey, probe.payload))

\* C19 as stated: a payload verifies under its own signature; a payload
\* with any one field changed, added or removed after signing does not;
\* a missing or malformed signature gives false.
C19_VerifyDetectsEveryChange ==
    /\ VerifiedUnderOwnDigest
          => (probe.verdict <=> probe.received = probe.payload)
    /\ (/\ probe.method = "verify_webhook_signature"
        /\ probe.signature \in MalformedSignatures) => ~probe.verdict
\* C19, amended: a payload without a top-level `signature` field verifies
\* under its own signature; a payload in which any one field other than the
\* top-level `signature` field was changed, added or removed after signing
\* does not; a missing or malformed signature gives false.
C19_VerifyDetectsChangeOutsideSignatureField ==
    /\ (/\ VerifiedUnderOwnDigest
        /\ probe.received = probe.payload
        /\ ~HasKey(probe.payload, "signature")) => probe.verdict
    /\ (/\ VerifiedUnderOwnDigest
        /\ WithoutSignatureField(probe.received)
             # WithoutSignatureField(probe.payload)) => ~probe.verdict
    /\ (/\ probe.method = "verify_webhook_signature"
        /\ probe.signature \in MalformedSignatures) => ~probe.verdict
\* An entry of params was changed after signing and the verification failed.
C19_Witness ==
    /\ VerifiedUnderOwnDigest
    /\ probe.received.keys = probe.payload.keys
    /\ probe.received.method = probe.payload.method
    /\ probe.received.params # probe.payload.params
    /\ ~probe.verdict
\* A payload without a `signature` field verified under its own signature.
C19_WitnessSigned ==
    /\ VerifiedUnderOwnDigest
    /\ probe.received = probe.payload
    /\ ~HasKey(probe.payload, "signature")
    /\ probe.verdict

\* The payload as a mapping: its keys and values without their order.
AsDict(data) ==
    [keys |-> {data.keys[i] : i \in 1..Len(data.keys)},
     method |-> IF HasKey(data, "method") THEN Some(data.method) ELSE None,
     params |-> IF HasKey(data, "params")
                THEN {data.params[i] : i \in 1..Len(data.params)} ELSE {},
     signature |-> IF HasKey(data, "signature") THEN data.signature ELSE None]

\* C20: two payloads with the same keys and values get the same signature
\* whatever the order in which their keys were inserted, and two payloads
\* that differ in a key or a value are serialized differently.
C20_CanonicalSerialization ==
    probe.method = "_generate_signature" =>
        IF AsDict(probe.payload) = AsDict(probe.received)
        THEN probe.verdict
        ELSE JsonDumps(probe.payload) # JsonDumps(probe.received)

\* What the payload constructed carries in params, None where it has none.
Carried(c, v) ==
    IF HasKey(c, "params") /\ c.params_type = "object" THEN v ELSE None
Named(c) == c.keys # <<>> /\ HasKey(c, "method") /\ c.method # ""
\* The result for a payload constructed with a method and an object params.
ParsedAsConstructed(c, parsed) ==
    CASE c.method = "receipts.pay" ->
           /\ parsed.type = "payment_success"
           /\ parsed.transaction_id = Carried(c, c.id)
           /\ parsed.cheque_id = Carried(c, c.cheque_id)
           /\ parsed.amount = Carried(c, c.amount)
           /\ parsed.paid_at = Carried(c, c.paid_at)
      [] c.method = "receipts.cancel" ->
           /\ parsed.type = "payment_cancelled"
           /\ parsed.transaction_id = Carried(c, c.id)
      [] OTHER ->
           /\ parsed.type = "unknown"
           /\ parsed.method = Some(c.method)

\* C21 as stated: the parser gives one of the four results for every
\* payload; receipts.pay gives payment_success with the id, receipt id,
\* amount and paid_at of the payload, receipts.cancel gives
\* payment_cancelled with its id, another non-empty method gives unknown
\* with that method, an empty payload or one without a method gives error.
C21_ParserRoundTrip ==
    probe.method = "parse_webhook_data" =>
        /\ probe.parsed.type \in {"payment_success", "payment_cancelled",
                                  "unknown", "error"}
        /\ IF Named(probe.constructed)
           THEN ParsedAsConstructed(probe.constructed, probe.parsed)
           ELSE probe.parsed.type = "error"
\* C21, amended: as stated for payloads whose params is a JSON object or is
\* absent; receipts.pay and receipts.cancel with a params that is not an
\* object give error.
C21_ParserRoundTripObjectParams ==
    probe.method = "parse_webhook_data" =>
        LET c == probe.constructed IN
        /\ probe.parsed.type \in {"payment_success", "payment_cancelled",
                                  "unknown", "error"}
        /\ IF ~Named(c) THEN probe.parsed.type = "error"
           ELSE IF /\ c.method \in {"receipts.pay", "receipts.cancel"}
                   /\ HasKey(c, "params") /\ c.params_type # "object"
           THEN probe.parsed.type = "error"
           ELSE ParsedAsConstructed(c, probe.parsed)
\* A receipts.pay payload constructed with all four values was parsed.
C21_Witness ==
    /\ probe.method = "parse_webhook_data"
    /\ probe.parsed.type = "payment_success"
    /\ probe.parsed.transaction_id = Some("txn-0000-0001")
    /\ probe.parsed.cheque_id = Some("chq-1")
    /\ probe.parsed.amount = Some(ToString(300))
    /\ probe.parsed.paid_at = Some(TimeStr(0))

\* C23: when a receipts.pay webhook under the provider's signature finds a
\* PENDING payment that names a tariff and is answered ok, the owner of the
\* payment is on that tariff, expiring duration_days from now; a webhook
\* whose activation found no owner or no tariff is not answered ok.
C23_OkMeansActivated ==
    [][\A data \in PayEvents :
          LET found == get_payment_by_payme_transaction(
                           payments, ParamGet(data.params, "id"))
          IN (/\ resp'.code = 200
              /\ found # {}
              /\ payme_webhook(data, ProviderSignature(data)))
                 => \A p \in found :
                       (payments[p].status = "PENDING" /\ payments[p].tariff_id # None)
                           => \E u \in GetUser(payments[p].user_id) :
                                 /\ users'[u].tariff_id = payments[p].tariff_id
                                 /\ GetTariff(Val(payments[p].tariff_id)) # None
                                 /\ users'[u].tariff_expires_at =
                                       Some(now + Val(GetTariff(Val(payments[p].tariff_id))).duration_days)]_vars

\* C26: the payment a purchase handler opens belongs to the authenticated
\* account, the one the upgrade rule was evaluated on.
C26_OwnerIsAuthenticatedAccount ==
    [][PaymentOpened
          => \A r \in RequestsOf(resp'.op) :
                PurchaseStep(r)
                    => payments'[Len(payments')].user_id = ToString(r.current_user)]_vars

\* C27: a webhook leaves every payment that carries no gateway transaction
\* id as it was, and an account changes in a webhook step only when a
\* payment that carries the id of the event exists.
C27_WebhookLeavesUnattachedPayments ==
    [][resp'.op = "payme_webhook"
          => /\ \A p \in 1..Len(payments) :
                   payments[p].payme_transaction_id = None
                       => payments'[p] = payments[p]
             /\ users' # users
                   => \E p \in 1..Len(payments) :
                         payments[p].payme_transaction_id # None]_vars

\* C24: an account's tariff_id and tariff_expires_at change only in the
\* step in which a PENDING payment of that account becomes PAID, and then
\* to the tariff that payment names.
C24_OnlyActivationWritesPlan ==
    [][\A u \in DOMAIN users :
          users'[u] # users[u]
              => \E p \in 1..Len(payments) :
                    /\ payments[p].user_id = ToString(u)
                    /\ payments[p].status = "PENDING"
                    /\ payments'[p].status = "PAID"
                    /\ users'[u].tariff_id = payments[p].tariff_id]_vars

\* C25: the feature gate evaluated for an account whose tariff_expires_at
\* is in the past does not hand out the account's tariff.
C25_ExpiredPlanGrantsNothing ==
    [][\A cu \in UserIds :
          (/\ users[cu].tariff_expires_at # None
           /\ Val(users[cu].tariff_expires_at) < now
           /\ get_user_tariff(cu))
              => resp'.code # 200]_vars

\* C22: the account a successful register_user creates has a tariff of
\* price 0 and expires duration_days of that tariff after the registration,
\* also when the call had to create the tariff; when ensure_users_have_tariff
\* has run, no account is without tariff.
C22_RegisteredAccountHasFreePlan ==
    [][/\ (resp'.op = "register_user" /\ Len(users') = Len(users) + 1)
            => LET user == users'[Len(users')] IN
               /\ user.tariff_id # None
               /\ Val(user.tariff_id) \in DOMAIN tariffs'
               /\ tariffs'[Val(user.tariff_id)].price = 0
               /\ user.tariff_expires_at =
                     Some(now + tariffs'[Val(user.tariff_id)].duration_days)
       /\ (\E w \in WorkerIds :
              /\ inflight[w].pc = "ensure_users_have_tariff"
              /\ inflight'[w].pc = "idle")
            => \A u \in DOMAIN users' : users'[u].tariff_id # None]_vars
\* An account was registered on the free plan, the first tariff of the
\* database, before startup gave the default admin a tariff.
C22_Witness ==
    /\ resp.op = "register_user"
    /\ Len(users) = 2
    /\ Len(tariffs) = 1
    /\ users[1].tariff_id = None
    /\ users[2].tariff_id = Some(1)
    /\ users[2].tariff_expires_at = Some(now + FreeDurationDays)

\* C28: startup and registration, in any order and interleaving, create at
\* most one tariff of price 0.
C28_OneFreeTariff == Cardinality(FreeTariffRows(tariffs)) <= 1

\* C29: for each function and client IP, the calls let through in the
\* minutes * 60 seconds that follow the first call let through of a window
\* are at most `times`, whatever other functions and clients are called.
C29_AtMostTimesPerWindow ==
    \A k \in DOMAIN admitted :
        admitted[k].calls <= RateLimited[admitted[k].func].times

\* The number of Like rows of a card.
LikeRows(c) == Cardinality({l \in likes : l.card_id = c})

\* C30: the like_count of every card equals the number of its Like rows.
C30_LikeCountIsRowCount ==
    \A c \in DOMAIN cards : cards[c].like_count = LikeRows(c)

====
